---- MODULE Spec2Model ----
(***************************************************************************)
(* Tenant authorization and provisioning core of sh-finan-as-desktop:      *)
(* the Postgres tables, the row-level-security policies, the               *)
(* bootstrap_user_company RPC and the browser code that calls them         *)
(* (useCompany, the sign-up page, ProtectedRoute, the Settings dialog),    *)
(* as a state machine.                                                     *)
(*                                                                         *)
(* Every RPC runs in its own READ COMMITTED transaction: each statement    *)
(* reads what is committed when it runs, the writes of a transaction       *)
(* become visible together at commit, and an unhandled exception rolls     *)
(* every write of the transaction back.  now() is the start time of the    *)
(* transaction.                                                            *)
(***************************************************************************)
EXTENDS Naturals, FiniteSets, Sequences, TLC

\* ---------------------------------------------------------------- bounds
NumUsers == 2     \* principals
MaxCalls == 2     \* sessions that can have an RPC in flight at once
MaxClock == 3     \* transactions that take a timestamp
MaxRows == 1      \* rows kept in each domain table
MaxLen == 2       \* characters of a credential
MaxFetch == 2     \* fetchCompanyData calls in progress at once

Users == 1..NumUsers
Calls == 1..MaxCalls
Fetches == 1..MaxFetch
\* gen_random_uuid() never repeats; the model names a new company by the
\* timestamp of the transaction that creates it, which never repeats either.
CompanyIds == 1..MaxClock
Names == {"Acme", "Beta"}

\* SQL NULL (no company id; ids start at 1)
NULL == 0

\* CREATE TYPE app_role / subscription_status
app_role == {"admin", "financeiro", "leitura"}
subscription_status == {"ativo", "suspenso", "cancelado"}

VARIABLES
  companies,      \* public.companies: rows [id, name]
  user_roles,     \* public.user_roles: rows [user_id, company_id, role, created_at]
  subscriptions,  \* public.subscriptions: rows [company_id, status, plano, valor]
  profiles,       \* public.profiles: rows [user_id, company_id]
  clock,          \* the database clock: now() of the latest transaction started
  calls,          \* the bootstrap_user_company RPCs in flight, one per session
  firstId,        \* per principal, what its first completed bootstrap returned
  transactions,   \* public.transactions: rows [user_id, company_id]
  categories,     \* public.categories: rows [user_id, company_id]
  audit_log,      \* public.audit_log: rows [company_id, user_id, table_name, action, created_at]
  api_connections,\* public.api_connections: rows [user_id, company_id, api_key, is_active]
  cred,           \* one application of encrypt_ then decrypt_api_credential
  user,           \* useAuth: the principal signed in on the browser, or NULL
  context,        \* CompanyProvider: company, userRole, subscription, loading, error
  localStorage,   \* pending_company_bootstrap_v1: the company name, "" when absent
  fetch,          \* the fetchCompanyData calls in progress
  create,         \* handleSubscription and its createCompany call
  form            \* Settings: the API connection dialog

tables == <<companies, user_roles, subscriptions, profiles>>
domain == <<transactions, categories>>
credentials == <<api_connections, cred>>
client == <<user, context, localStorage, fetch, create, form>>
vars == <<companies, user_roles, subscriptions, profiles, clock, calls, firstId,
          transactions, categories, audit_log, api_connections, cred,
          user, context, localStorage, fetch, create, form>>

\* data and error are the two halves of the RPC's answer to the client.
IdleCall == [pc |-> "idle", caller |-> 0, name |-> "", ts |-> 0,
             v_company_id |-> NULL, has_profile |-> FALSE,
             data |-> NULL, error |-> FALSE, late |-> FALSE]

\* ------------------------------------------------------- tenant directory
RolesOf(u) == {r \in user_roles : r.user_id = u}

CompanyIdsOf(u) == {r.company_id : r \in RolesOf(u)}

\* SELECT company_id FROM user_roles WHERE user_id = auth.uid()
\* ORDER BY created_at ASC LIMIT 1   (NULL when there is no row)
FirstCompanyOf(u) ==
  IF RolesOf(u) = {} THEN NULL
  ELSE (CHOOSE r \in RolesOf(u) :
          \A q \in RolesOf(u) : r.created_at <= q.created_at).company_id

\* EXISTS (SELECT 1 FROM public.profiles WHERE user_id = auth.uid())
ProfileExists(u) == \E p \in profiles : p.user_id = u

\* The session a new RPC runs on: one whose last RPC has answered (its
\* answer stays readable until then).  Sessions are interchangeable, the
\* model takes the first such one.
Answered(k) == calls[k].pc \in {"idle", "done"}
FreeCall(k) == Answered(k) /\ \A j \in Calls : j < k => ~Answered(j)

\* ------------------------------------------------ bootstrap_user_company
CompanyRow(c) == [id |-> c.v_company_id, name |-> c.name]
AdminRoleRow(c) == [user_id |-> c.caller, company_id |-> c.v_company_id,
                    role |-> "admin", created_at |-> c.ts]
\* (mutant) the subscription is left to the column defaults of the first
\* schema: valor 99.90
PaidSubscriptionRow(c) == [company_id |-> c.v_company_id, status |-> "ativo",
                           plano |-> "Plano SH Completo", valor |-> 9990]
FreeSubscriptionRow(c) == [company_id |-> c.v_company_id, status |-> "ativo",
                           plano |-> "Plano SH Completo", valor |-> 0]
ProfileRow(c) == [user_id |-> c.caller, company_id |-> c.v_company_id]

\* The RPC arrives: the transaction starts and runs the SELECT ... INTO
\* v_company_id; a principal that has a role gets its company back at once.
BootstrapBegin(k, u, n) ==
  /\ FreeCall(k)
  /\ clock < MaxClock
  /\ clock' = clock + 1
  /\ LET v == FirstCompanyOf(u)
         c == [IdleCall EXCEPT !.caller = u, !.name = n, !.ts = clock + 1,
                               !.late = (firstId[u] # NULL)]
     IN IF v # NULL
        THEN /\ calls' = [calls EXCEPT ![k] = [c EXCEPT !.pc = "done", !.data = v]]
             /\ firstId' = IF firstId[u] = NULL
                           THEN [firstId EXCEPT ![u] = v] ELSE firstId
        ELSE /\ calls' = [calls EXCEPT ![k] = [c EXCEPT !.pc = "create"]]
             /\ firstId' = firstId
  /\ UNCHANGED <<tables, domain, audit_log, credentials>>

\* The three INSERTs (company, admin role, subscription), not yet committed,
\* and the IF EXISTS test on profiles.
BootstrapInsert(k) ==
  /\ calls[k].pc = "create"
  /\ calls' = [calls EXCEPT ![k] =
                [calls[k] EXCEPT !.pc = "link",
                                 !.v_company_id = calls[k].ts,
                                 !.has_profile = ProfileExists(calls[k].caller)]]
  /\ UNCHANGED <<tables, clock, firstId, domain, audit_log, credentials>>

\* INSERT INTO profiles hits profiles.user_id UNIQUE when a concurrent
\* transaction committed the principal's profile after the IF EXISTS test.
ProfileInsertFails(c) == ~c.has_profile /\ ProfileExists(c.caller)

\* RETURN v_company_id and commit: every write of the call becomes visible.
BootstrapCommit(k) ==
  LET c == calls[k] IN
  /\ companies' = companies \cup {CompanyRow(c)}
  /\ user_roles' = user_roles \cup {AdminRoleRow(c)}
  /\ subscriptions' = subscriptions \cup {FreeSubscriptionRow(c)}
  /\ profiles' = IF c.has_profile
                 THEN {IF p.user_id = c.caller THEN ProfileRow(c) ELSE p : p \in profiles}
                 ELSE profiles \cup {ProfileRow(c)}
  /\ calls' = [calls EXCEPT ![k] = [c EXCEPT !.pc = "done", !.data = c.v_company_id]]
  /\ firstId' = IF firstId[c.caller] = NULL
                THEN [firstId EXCEPT ![c.caller] = c.v_company_id] ELSE firstId

\* (mutant) the failing profile INSERT is caught in a block of its own: the
\* three earlier INSERTs stay and the call still answers with an error
BootstrapKeepsEarlierInserts(k) ==
  LET c == calls[k] IN
  /\ companies' = companies \cup {CompanyRow(c)}
  /\ user_roles' = user_roles \cup {AdminRoleRow(c)}
  /\ subscriptions' = subscriptions \cup {FreeSubscriptionRow(c)}
  /\ UNCHANGED <<profiles, firstId>>
  /\ calls' = [calls EXCEPT ![k] = [c EXCEPT !.pc = "done", !.error = TRUE]]

\* The exception leaves the function: the transaction rolls back and the
\* RPC answers with an error.
BootstrapRollback(k) ==
  /\ UNCHANGED <<tables, firstId>>
  /\ calls' = [calls EXCEPT ![k] = [@ EXCEPT !.pc = "done", !.error = TRUE,
                                             !.v_company_id = NULL]]

\* The profile UPDATE or INSERT, then the end of the transaction.
BootstrapLink(k) ==
  /\ calls[k].pc = "link"
  /\ IF ProfileInsertFails(calls[k]) THEN BootstrapRollback(k) ELSE BootstrapCommit(k)
  /\ UNCHANGED <<clock, domain, audit_log, credentials>>

\* The whole RPC with no other transaction in between (what a principal
\* with no role gets; with a role the call writes nothing).
BootstrapAlone(u, n) ==
  LET c == [IdleCall EXCEPT !.caller = u, !.name = n, !.ts = clock + 1,
                            !.v_company_id = clock + 1,
                            !.has_profile = ProfileExists(u)]
  IN /\ clock < MaxClock
     /\ FirstCompanyOf(u) = NULL
     /\ clock' = clock + 1
     /\ companies' = companies \cup {CompanyRow(c)}
     /\ user_roles' = user_roles \cup {AdminRoleRow(c)}
     /\ subscriptions' = subscriptions \cup {FreeSubscriptionRow(c)}
     /\ profiles' = {p \in profiles : p.user_id # u} \cup {ProfileRow(c)}
     /\ UNCHANGED <<calls, firstId, domain, audit_log, credentials, client>>

\* ------------------------------------------- policy helper functions
\* In every operator below u is auth.uid(), the principal of the request.

\* SELECT company_id FROM user_roles WHERE user_id = auth.uid() LIMIT 1
\* has no ORDER BY: with several rows any of them may be the one returned.
\* The set of the values the call can return.
get_user_company_id(u) == IF RolesOf(u) = {} THEN {NULL} ELSE CompanyIdsOf(u)

has_role(u, _role) == \E r \in user_roles : r.user_id = u /\ r.role = _role

is_company_member(u, _company_id) ==
  \E r \in user_roles : r.user_id = u /\ r.company_id = _company_id

is_company_admin(u, _company_id) ==
  \E r \in user_roles :
    r.user_id = u /\ r.company_id = _company_id /\ r.role = "admin"

is_subscription_active(_company_id) ==
  \E su \in subscriptions : su.company_id = _company_id /\ su.status = "ativo"

\* --------------------------------------------------- row-level security
\* The policies in force after the last migration.  A row is given by its
\* user_id and company_id (for companies, company_id is the row's id); g is
\* the value get_user_company_id() returns in the statement.  The policies
\* of a table are permissive: a command passes when one of them passes.
Tables == {"companies", "user_roles", "subscriptions", "audit_log",
           "transactions", "categories"}
Commands == {"SELECT", "INSERT", "UPDATE", "DELETE"}
Writes == {"INSERT", "UPDATE", "DELETE"}

\* "Users can view their company", "New users can create first company",
\* "Admins can update their company", "Admins can delete their company"
CompaniesPolicy(u, cmd, row) ==
  \/ cmd = "SELECT" /\ is_company_member(u, row.company_id)
  \/ cmd = "INSERT" /\ RolesOf(u) = {}
  \/ cmd \in {"UPDATE", "DELETE"} /\ is_company_admin(u, row.company_id)

\* The policies of user_roles with "Users can insert their own initial role"
\* (WITH CHECK user_id = auth.uid()) still in force.
UserRolesPolicyWithInitialRole(u, cmd, row) ==
  \/ is_company_admin(u, row.company_id)
  \/ cmd = "SELECT" /\ is_company_member(u, row.company_id)
  \/ cmd = "SELECT" /\ row.user_id = u
  \/ cmd = "INSERT" /\ row.user_id = u

\* "Admins can manage roles in their company" (FOR ALL), "Users can view
\* roles in their company", "Users can view their own role"
UserRolesPolicy(u, cmd, row) ==
  \/ is_company_admin(u, row.company_id)
  \/ cmd = "SELECT" /\ is_company_member(u, row.company_id)
  \/ cmd = "SELECT" /\ row.user_id = u

\* "Users can view their company subscription", "Users can create
\* subscription for their company", "Admins can update subscription",
\* "Admins can delete subscriptions"
SubscriptionsPolicy(u, cmd, row) ==
  \/ cmd \in {"SELECT", "INSERT"} /\ is_company_member(u, row.company_id)
  \/ cmd \in {"UPDATE", "DELETE"} /\ is_company_admin(u, row.company_id)

\* "Admins can view audit logs of their company"; no policy for a write
AuditLogPolicy(u, cmd, row) ==
  /\ cmd = "SELECT"
  /\ is_company_member(u, row.company_id)
  /\ is_subscription_active(row.company_id)
  /\ has_role(u, "admin")

\* "Users can manage their own transactions" (FOR ALL, of the first schema:
\* the later migrations drop policies of other names and leave it),
\* "Company members can view / create / update transactions", "Company
\* admins can delete transactions"
TransactionsPolicy(u, g, cmd, row) ==
  \/ row.user_id = u
  \/ /\ row.company_id = g
     /\ is_subscription_active(row.company_id)
     /\ \/ cmd = "SELECT"
        \/ cmd \in {"INSERT", "UPDATE"}
             /\ (has_role(u, "admin") \/ has_role(u, "financeiro"))
        \/ cmd = "DELETE" /\ has_role(u, "admin")

\* "Users can manage their own categories" (FOR ALL, of the first schema),
\* "Company members can view categories", "Company members can manage
\* categories" (FOR ALL)
CategoriesPolicy(u, g, cmd, row) ==
  \/ row.user_id = u
  \/ /\ row.company_id = g
     /\ \/ cmd = "SELECT"
        \/ has_role(u, "admin") \/ has_role(u, "financeiro")

Policy(u, g, tbl, cmd, row) ==
  CASE tbl = "companies" -> CompaniesPolicy(u, cmd, row)
    [] tbl = "user_roles" -> UserRolesPolicy(u, cmd, row)
    [] tbl = "subscriptions" -> SubscriptionsPolicy(u, cmd, row)
    [] tbl = "audit_log" -> AuditLogPolicy(u, cmd, row)
    [] tbl = "transactions" -> TransactionsPolicy(u, g, cmd, row)
    [] tbl = "categories" -> CategoriesPolicy(u, g, cmd, row)

\* The command of principal u on the row passes row-level security.
Allowed(u, tbl, cmd, row) ==
  \E g \in get_user_company_id(u) : Policy(u, g, tbl, cmd, row)

CompanyExists(c) == \E co \in companies : co.id = c
RoleRows(u, c) == {r \in user_roles : r.user_id = u /\ r.company_id = c}

\* ------------------------------------------------------ fetchCompanyData
\* supabase.from('user_roles').select('*').eq('user_id', user.id): the rows
\* of the principal that pass the SELECT policies of user_roles.
RoleRowsSeen(u) ==
  {r \in user_roles : r.user_id = u /\ Allowed(u, "user_roles", "SELECT", r)}

\* .maybeSingle(): no row is data null, one row is that row, several rows
\* are an error.  .single(): no row is an error too.
MaybeSingleFails(rows) == Cardinality(rows) > 1
SingleFails(rows) == Cardinality(rows) # 1

\* ------------------------------------------------- writes on user_roles
\* INSERT INTO user_roles (user_id, company_id, role): the foreign key on
\* companies, UNIQUE (user_id, company_id), created_at DEFAULT now().
RoleInsert(p, u, c, role) ==
  LET row == [user_id |-> u, company_id |-> c, role |-> role,
              created_at |-> clock + 1]
  IN /\ clock < MaxClock
     /\ CompanyExists(c)
     /\ RoleRows(u, c) = {}
     /\ Allowed(p, "user_roles", "INSERT", row)
     /\ user_roles' = user_roles \cup {row}
     /\ clock' = clock + 1
     /\ UNCHANGED <<companies, subscriptions, profiles, calls, firstId, domain, audit_log,
                 credentials, client>>

\* UPDATE user_roles SET role = newRole WHERE user_id = u AND company_id = c:
\* the rows the policy lets p see are updated, the new row is checked too.
RoleUpdate(p, u, c, newRole) ==
  \E r \in RoleRows(u, c) :
    /\ r.role # newRole
    /\ Allowed(p, "user_roles", "UPDATE", r)
    /\ Allowed(p, "user_roles", "UPDATE", [r EXCEPT !.role = newRole])
    /\ user_roles' = (user_roles \ {r}) \cup {[r EXCEPT !.role = newRole]}
    /\ UNCHANGED <<companies, subscriptions, profiles, clock, calls, firstId, domain, audit_log,
                 credentials, client>>

\* DELETE FROM user_roles WHERE user_id = u AND company_id = c
RoleDelete(p, u, c) ==
  \E r \in RoleRows(u, c) :
    /\ Allowed(p, "user_roles", "DELETE", r)
    /\ user_roles' = user_roles \ {r}
    /\ UNCHANGED <<companies, subscriptions, profiles, clock, calls, firstId, domain, audit_log,
                 credentials, client>>

\* The company context of the Settings page of principal p: the one role row
\* fetchCompanyData loads with maybeSingle() (none when p has no row or
\* several), and isAdmin = (userRole.role = 'admin').
AdminContext(p) == {r \in RolesOf(p) : RolesOf(p) = {r} /\ r.role = "admin"}

\* handleUpdateUserRole(userId, newRole): if (!isAdmin || !company) return;
\* then the UPDATE.
handleUpdateUserRole(p, userId, newRole) ==
  \E ctx \in AdminContext(p) : RoleUpdate(p, userId, ctx.company_id, newRole)

\* handleRemoveUser(userId): the same guard, refuses userId === user.id,
\* then the DELETE.
handleRemoveUser(p, userId) ==
  \E ctx \in AdminContext(p) :
    /\ userId # p
    /\ RoleDelete(p, userId, ctx.company_id)

\* ---------------------------------------------- writes on subscriptions
\* INSERT INTO subscriptions (company_id, status): company_id is UNIQUE;
\* plano and valor take the column defaults.
SubscriptionInsert(p, c, status) ==
  LET row == [company_id |-> c, status |-> status, plano |-> "unico", valor |-> 0]
  IN /\ CompanyExists(c)
     /\ \A su \in subscriptions : su.company_id # c
     /\ Allowed(p, "subscriptions", "INSERT", row)
     /\ subscriptions' = subscriptions \cup {row}
     /\ UNCHANGED <<companies, user_roles, profiles, clock, calls, firstId, domain, audit_log,
                 credentials, client>>

\* UPDATE subscriptions SET status = ... WHERE company_id = c
SubscriptionUpdate(p, c, status) ==
  \E su \in subscriptions :
    /\ su.company_id = c
    /\ su.status # status
    /\ Allowed(p, "subscriptions", "UPDATE", su)
    /\ subscriptions' = (subscriptions \ {su}) \cup {[su EXCEPT !.status = status]}
    /\ UNCHANGED <<companies, user_roles, profiles, clock, calls, firstId, domain, audit_log,
                 credentials, client>>

\* DELETE FROM subscriptions WHERE company_id = c
SubscriptionDelete(p, c) ==
  \E su \in subscriptions :
    /\ su.company_id = c
    /\ Allowed(p, "subscriptions", "DELETE", su)
    /\ subscriptions' = subscriptions \ {su}
    /\ UNCHANGED <<companies, user_roles, profiles, clock, calls, firstId, domain, audit_log,
                 credentials, client>>

\* ------------------------------------------------- writes on companies
\* INSERT INTO companies (name) through the API: id DEFAULT
\* gen_random_uuid().  Nothing else is written.
CompanyInsert(p, n) ==
  LET id == clock + 1
  IN /\ clock < MaxClock
     /\ Allowed(p, "companies", "INSERT", [user_id |-> NULL, company_id |-> id])
     /\ companies' = companies \cup {[id |-> id, name |-> n]}
     /\ clock' = clock + 1
     /\ UNCHANGED <<user_roles, subscriptions, profiles, calls, firstId, domain, audit_log,
                 credentials, client>>

\* UPDATE companies SET name = n WHERE id = c (handleSaveCompany)
CompanyUpdate(p, c, n) ==
  \E co \in companies :
    /\ co.id = c
    /\ co.name # n
    /\ Allowed(p, "companies", "UPDATE", [user_id |-> NULL, company_id |-> c])
    /\ companies' = (companies \ {co}) \cup {[co EXCEPT !.name = n]}
    /\ UNCHANGED <<user_roles, subscriptions, profiles, clock, calls, firstId, domain, audit_log,
                 credentials, client>>

\* DELETE FROM companies WHERE id = c.  The foreign keys on companies(id):
\* ON DELETE CASCADE in user_roles, subscriptions, audit_log, transactions,
\* categories and api_connections, ON DELETE SET NULL in profiles.
CompanyDelete(p, c) ==
  /\ CompanyExists(c)
  /\ Allowed(p, "companies", "DELETE", [user_id |-> NULL, company_id |-> c])
  /\ companies' = {co \in companies : co.id # c}
  /\ user_roles' = {r \in user_roles : r.company_id # c}
  /\ subscriptions' = {su \in subscriptions : su.company_id # c}
  /\ audit_log' = {a \in audit_log : a.company_id # c}
  /\ transactions' = {t \in transactions : t.company_id # c}
  /\ categories' = {t \in categories : t.company_id # c}
  /\ profiles' = {IF pr.company_id = c THEN [pr EXCEPT !.company_id = NULL] ELSE pr :
                    pr \in profiles}
  /\ api_connections' = {t \in api_connections : t.company_id # c}
  /\ UNCHANGED <<clock, calls, firstId, cred, client>>

\* ------------------------------------- writes on the domain tables
\* INSERT INTO transactions (user_id, company_id, ...): company_id
\* REFERENCES companies.  The model keeps one row per (user_id, company_id).
TransactionInsert(p, u, c) ==
  LET row == [user_id |-> u, company_id |-> c]
  IN /\ CompanyExists(c)
     /\ row \notin transactions
     /\ Cardinality(transactions) < MaxRows
     /\ Allowed(p, "transactions", "INSERT", row)
     /\ transactions' = transactions \cup {row}
     /\ UNCHANGED <<tables, clock, calls, firstId, categories, audit_log, credentials, client>>

TransactionDelete(p, row) ==
  /\ row \in transactions
  /\ Allowed(p, "transactions", "DELETE", row)
  /\ transactions' = transactions \ {row}
  /\ UNCHANGED <<tables, clock, calls, firstId, categories, audit_log, credentials, client>>

CategoryInsert(p, u, c) ==
  LET row == [user_id |-> u, company_id |-> c]
  IN /\ CompanyExists(c)
     /\ row \notin categories
     /\ Cardinality(categories) < MaxRows
     /\ Allowed(p, "categories", "INSERT", row)
     /\ categories' = categories \cup {row}
     /\ UNCHANGED <<tables, clock, calls, firstId, transactions, audit_log, credentials, client>>

CategoryDelete(p, row) ==
  /\ row \in categories
  /\ Allowed(p, "categories", "DELETE", row)
  /\ categories' = categories \ {row}
  /\ UNCHANGED <<tables, clock, calls, firstId, transactions, audit_log, credentials, client>>

\* ---------------------------------------------------------- audit_log
\* The model keeps one audit row per (company_id, user_id, table_name,
\* action, created_at); record_id, old_data and new_data are not read.
AuditTableNames == {"user_roles", "subscriptions"}
AuditActions == {"update", "delete"}

AuditRow(c, u, tableName, action) ==
  [company_id |-> c, user_id |-> u, table_name |-> tableName,
   action |-> action, created_at |-> clock]

\* (mutant) the company of the row is a parameter of the call, as table_name
\* and action are: the caller names any existing company
log_audit_event_for_any_company(p, p_table_name, p_action) ==
  \E v_company_id \in {co.id : co \in companies} :
    /\ Cardinality(audit_log) < MaxRows
    /\ audit_log' = audit_log \cup
         {AuditRow(v_company_id, p, p_table_name, p_action)}
    /\ UNCHANGED <<tables, clock, calls, firstId, domain, credentials, client>>

\* log_audit_event(p_table_name, p_action, ...): SECURITY DEFINER, EXECUTE
\* left to PUBLIC.  Returns NULL when get_user_company_id() IS NULL, else
\* inserts the row the caller describes.
log_audit_event(p, p_table_name, p_action) ==
  \E v_company_id \in get_user_company_id(p) :
    IF v_company_id = NULL
      THEN UNCHANGED vars
      ELSE /\ Cardinality(audit_log) < MaxRows
           /\ audit_log' = audit_log \cup
                {AuditRow(v_company_id, p, p_table_name, p_action)}
           /\ UNCHANGED <<tables, clock, calls, firstId, domain, credentials, client>>

\* The company of the session of principal p: the one role row
\* fetchCompanyData loads with maybeSingle().
CompanyContext(p) == {r \in RolesOf(p) : RolesOf(p) = {r}}

\* useAudit.logAction: if (!user || !company) return; then an INSERT on
\* audit_log through the API, whose error is written to the console only.
logAction(p, tableName, action) ==
  \E ctx \in CompanyContext(p) :
    LET row == AuditRow(ctx.company_id, p, tableName, action)
    IN IF Allowed(p, "audit_log", "INSERT", row)
         THEN /\ audit_log' = audit_log \cup {row}
              /\ UNCHANGED <<tables, clock, calls, firstId, domain, credentials, client>>
         ELSE UNCHANGED vars

\* -------------------------------------------------------- credentials
\* A text is the sequence of its characters.  An SQL value is NULL, a text,
\* or the base64 text of an AES ciphertext, told by the key (the user id the
\* key is derived from) and the bytes encrypted.
Chars == {"k", "x", "\\"}
Texts == UNION {[1..n -> Chars] : n \in 1..MaxLen}

NullV == [kind |-> "null", key |-> NULL, data |-> <<>>]
Text(t) == [kind |-> "text", key |-> NULL, data |-> t]
Base64Aes(u, bytes) == [kind |-> "aes", key |-> u, data |-> bytes]
Raised == [kind |-> "error", key |-> NULL, data |-> <<>>]
IsNullOrEmpty(v) == v.kind = "null" \/ v = Text(<<>>)

\* byteain, escape format: a character stands for itself, \\ for one
\* backslash, any other backslash is a syntax error (Chars has no digit, so
\* no \ooo).
RECURSIVE EscapeIn(_)
EscapeIn(t) ==
  IF t = <<>> THEN [ok |-> TRUE, val |-> <<>>]
  ELSE IF t[1] # "\\"
    THEN LET r == EscapeIn(Tail(t))
         IN [ok |-> r.ok, val |-> IF r.ok THEN <<t[1]>> \o r.val ELSE <<>>]
  ELSE IF Len(t) >= 2 /\ t[2] = "\\"
    THEN LET r == EscapeIn(SubSeq(t, 3, Len(t)))
         IN [ok |-> r.ok, val |-> IF r.ok THEN <<"\\">> \o r.val ELSE <<>>]
  ELSE [ok |-> FALSE, val |-> <<>>]

\* p_plaintext::bytea is the input conversion of bytea: after a leading \x
\* come hex digits only (none of Chars is one), otherwise the escape format.
ByteaIn(t) ==
  IF Len(t) >= 2 /\ t[1] = "\\" /\ t[2] = "x"
    THEN [ok |-> Len(t) = 2, val |-> <<>>]
    ELSE EscapeIn(t)

\* The characters of a ciphertext, when it is given as a text: base64, with
\* no backslash, a text different from that of any other ciphertext.
Base64Text(v) == <<"base64", ToString(v.key)>> \o v.data

\* encrypt_api_credential(p_plaintext, p_user_id); no exception handler.
\* The text of a ciphertext is encrypted as any other text is.
encrypt_api_credential(p_plaintext, p_user_id) ==
  IF IsNullOrEmpty(p_plaintext) THEN NullV
  ELSE IF p_plaintext.kind # "text"
    THEN Base64Aes(p_user_id, Base64Text(p_plaintext))
  ELSE LET b == ByteaIn(p_plaintext.data)
       IN IF b.ok THEN Base64Aes(p_user_id, b.val) ELSE Raised

\* convert_from(decrypt(decode(p_ciphertext, 'base64'), v_key, 'aes'),
\* 'UTF8'): the bytes under the key they were encrypted with; an error for a
\* text that is no base64 of a ciphertext, for a damaged ciphertext and for
\* another key.
DecryptBody(p_ciphertext, p_user_id) ==
  IF p_ciphertext.kind = "aes" /\ p_ciphertext.key = p_user_id
    THEN Text(p_ciphertext.data)
    ELSE Raised

\* decrypt_api_credential with no EXCEPTION block.
DecryptPropagatesErrors(p_ciphertext, p_user_id) ==
  IF IsNullOrEmpty(p_ciphertext) THEN NullV
  ELSE DecryptBody(p_ciphertext, p_user_id)

\* decrypt_api_credential(p_ciphertext, p_user_id): EXCEPTION WHEN OTHERS
\* THEN RETURN NULL.
decrypt_api_credential(p_ciphertext, p_user_id) ==
  IF IsNullOrEmpty(p_ciphertext) THEN NullV
  ELSE LET r == DecryptBody(p_ciphertext, p_user_id)
       IN IF r.kind = "error" THEN NullV ELSE r

\* The two functions called one after the other (EXECUTE is left to
\* PUBLIC): plaintext encrypted for owner, then what is given to
\* decrypt_api_credential with the id of reader: the ciphertext, the
\* ciphertext damaged, or the plaintext as it is.
Given == {"ciphertext", "corrupt", "plaintext"}
NoCred == [pc |-> "off", plaintext |-> NullV, owner |-> NULL, reader |-> NULL,
           given |-> "ciphertext", ciphertext |-> NullV, out |-> NullV]

EncryptStep ==
  /\ cred.pc = "input"
  /\ cred.given # "plaintext"
  /\ LET c == encrypt_api_credential(cred.plaintext, cred.owner)
     IN cred' = [cred EXCEPT !.ciphertext = c,
                             !.pc = IF c.kind = "error" THEN "raised" ELSE "encrypted"]
  /\ UNCHANGED <<tables, clock, calls, firstId, domain, audit_log, api_connections, client>>

DecryptInput ==
  CASE cred.given = "ciphertext" -> cred.ciphertext
    [] cred.given = "corrupt" ->
         IF cred.ciphertext.kind = "aes"
           THEN [cred.ciphertext EXCEPT !.kind = "corrupt"]
           ELSE cred.ciphertext
    [] cred.given = "plaintext" -> cred.plaintext

DecryptStep ==
  /\ \/ cred.pc = "encrypted"
     \/ cred.pc = "input" /\ cred.given = "plaintext"
  /\ LET r == decrypt_api_credential(DecryptInput, cred.reader)
     IN cred' = [cred EXCEPT !.out = r,
                             !.pc = IF r.kind = "error" THEN "raised" ELSE "decrypted"]
  /\ UNCHANGED <<tables, clock, calls, firstId, domain, audit_log, api_connections, client>>

\* "Users can manage their own API connections" with the company of the row
\* in place of its owner, as the policies of the other company tables have.
ApiConnectionsCompanyPolicy(u, cmd, row) ==
  row.company_id # NULL /\ is_company_member(u, row.company_id)

\* "Users can manage their own API connections": FOR ALL, USING and WITH
\* CHECK auth.uid() = user_id.
ApiConnectionsPolicy(u, cmd, row) == row.user_id = u

\* encrypt_api_credentials_trigger, BEFORE INSERT OR UPDATE, for api_key
\* (api_secret and access_token are handled the same way): the value the
\* row is stored with, or the error of encrypt_api_credential.
encrypt_api_credentials_trigger(TG_OP, old, new) ==
  IF /\ ~IsNullOrEmpty(new.api_key)
     /\ (TG_OP = "INSERT" \/ old.api_key # new.api_key)
    THEN encrypt_api_credential(new.api_key, new.user_id)
    ELSE new.api_key

\* INSERT INTO api_connections (user_id, company_id, api_key, ...)
\* (handleSaveApiConnection); company_id REFERENCES companies.  A failing
\* trigger fails the statement.
ApiConnectionInsert(p, u, c, key) ==
  LET new == [user_id |-> u, company_id |-> c, api_key |-> key, is_active |-> TRUE]
      stored == encrypt_api_credentials_trigger("INSERT", new, new)
  IN /\ c = NULL \/ CompanyExists(c)
     /\ Cardinality(api_connections) < MaxRows
     /\ ApiConnectionsPolicy(p, "INSERT", new)
     /\ api_connections' =
          IF stored.kind = "error" THEN api_connections
          ELSE api_connections \cup {[new EXCEPT !.api_key = stored]}
     /\ UNCHANGED <<tables, clock, calls, firstId, domain, audit_log, cred, client>>

\* UPDATE api_connections SET api_key = key WHERE id = OLD.id
ApiConnectionUpdate(p, old, key) ==
  LET new == [old EXCEPT !.api_key = key]
      stored == encrypt_api_credentials_trigger("UPDATE", old, new)
  IN /\ old \in api_connections
     /\ ApiConnectionsPolicy(p, "UPDATE", old)
     /\ ApiConnectionsPolicy(p, "UPDATE", new)
     /\ api_connections' =
          IF stored.kind = "error" THEN api_connections
          ELSE (api_connections \ {old}) \cup {[new EXCEPT !.api_key = stored]}
     /\ UNCHANGED <<tables, clock, calls, firstId, domain, audit_log, cred, client>>

\* DELETE FROM api_connections WHERE id = row.id (handleDeleteApiConnection)
ApiConnectionDelete(p, row) ==
  /\ row \in api_connections
  /\ ApiConnectionsPolicy(p, "DELETE", row)
  /\ api_connections' = api_connections \ {row}
  /\ UNCHANGED <<tables, clock, calls, firstId, domain, audit_log, cred, client>>

\* SELECT * FROM api_connections_decrypted (security_invoker): the rows of
\* api_connections the policy passes WHERE user_id = auth.uid(), api_key
\* replaced by decrypt_api_credential(api_key, user_id).
api_connections_decrypted(u) ==
  {[row EXCEPT !.api_key = decrypt_api_credential(row.api_key, row.user_id)] :
     row \in {r \in api_connections :
                ApiConnectionsPolicy(u, "SELECT", r) /\ r.user_id = u}}

\* ------------------------------------------------------------- reads
\* SELECT * FROM transactions: the rows the policy passes, every column.
SelectTransactions(u) ==
  {row \in transactions : Allowed(u, "transactions", "SELECT", row)}

\* The sensitive columns (profit, product_cost, tax_amount) a SELECT on the
\* table hands to u: the table has no column-level restriction.
TableShowsSensitive(u, row) == row \in SelectTransactions(u)

\* transactions_safe (security_invoker): the same rows, the three columns
\* NULL unless has_role('admin') OR has_role('financeiro').
ViewShowsSensitive(u, row) ==
  /\ row \in SelectTransactions(u)
  /\ (has_role(u, "admin") \/ has_role(u, "financeiro"))

\* ------------------------------------------------------- the browser
\* CompanyProvider's state.  company is the id of the company row, userRole
\* the role of the role row, subscription the status of the subscription
\* row; "" stands for null.
NoCompanyState == [company |-> NULL, userRole |-> "", subscription |-> "",
                   loading |-> FALSE, error |-> FALSE]

\* The dialog closed and the form reset (resetApiForm): editingConnection
\* null, formApiKey ''.
NoConnection == [user_id |-> NULL, company_id |-> NULL, api_key |-> NullV,
                 is_active |-> FALSE]
ClosedForm == [open |-> FALSE, user |-> NULL, editing |-> NoConnection,
               api_key |-> Text(<<>>)]

IdleFetch == [pc |-> "idle", user |-> NULL, company_id |-> NULL, name |-> "",
              call |-> NULL, error |-> FALSE]
IdleCreate == [pc |-> "idle", user |-> NULL, principal |-> NULL, name |-> "",
               call |-> NULL, companyId |-> NULL, error |-> FALSE,
               fetch |-> NULL]

\* The provider is mounted with nobody signed in: the effect has run its
\* else branch.
InitClient ==
  /\ user = NULL
  /\ context = NoCompanyState
  /\ localStorage = ""
  /\ fetch = [f \in Fetches |-> IdleFetch]
  /\ create = IdleCreate
  /\ form = ClosedForm

\* setCompany(null); setUserRole(null); setSubscription(null);
\* setLoading(false)
NoCompany(ctx) == [ctx EXCEPT !.company = NULL, !.userRole = "",
                              !.subscription = "", !.loading = FALSE]
\* catch (err) { setError(err.message) } finally { setLoading(false) }
Failed(ctx) == [ctx EXCEPT !.error = TRUE, !.loading = FALSE]

\* A fetchCompanyData call the model can start: one that has returned and
\* that createCompany is not awaiting (the first such one).
Returned(f) ==
  /\ fetch[f].pc = "idle"
  /\ ~(create.pc = "refresh" /\ create.fetch = f)
FreeFetch(f) == Returned(f) /\ \A j \in Fetches : j < f => ~Returned(j)

\* fetchCompanyData up to its first await, in a render where user is u:
\* setLoading(true); setError(null); the role query is sent.
fetchCompanyData(f, u) ==
  /\ fetch' = [fetch EXCEPT ![f] = [IdleFetch EXCEPT !.pc = "role", !.user = u]]
  /\ context' = [context EXCEPT !.loading = TRUE, !.error = FALSE]

\* The principal signs in (or signs in again): the effect on [user] calls
\* fetchCompanyData.
signIn(u) ==
  /\ user \in {NULL, u}
  /\ create.pc \in {"idle", "done"}
  /\ \E f \in Fetches : FreeFetch(f) /\ fetchCompanyData(f, u)
  /\ user' = u
  /\ UNCHANGED <<tables, clock, calls, firstId, domain, audit_log, credentials,
                 localStorage, create, form>>

\* The principal signs out: the else branch of the effect.
signOut ==
  /\ user # NULL
  /\ create.pc \in {"idle", "done"}
  /\ user' = NULL
  /\ context' = NoCompany(context)
  /\ UNCHANGED <<tables, clock, calls, firstId, domain, audit_log, credentials,
                 localStorage, fetch, create, form>>

\* The role query answers.  Several rows: maybeSingle() fails and the outer
\* catch sets error.  No row: with no pending record the call ends in the
\* "no company" state, with one tryBootstrapFromPending sends the RPC next.
\* One row: setUserRole and the company query is sent.
FetchRole(f) ==
  LET u == fetch[f].user
      rows == RoleRowsSeen(u)
  IN /\ fetch[f].pc = "role"
     /\ IF MaybeSingleFails(rows)
          THEN /\ context' = Failed(context)
               /\ fetch' = [fetch EXCEPT ![f] = IdleFetch]
        ELSE IF rows = {}
          THEN IF localStorage = ""
                 THEN /\ context' = NoCompany(context)
                      /\ fetch' = [fetch EXCEPT ![f] = IdleFetch]
                 ELSE /\ context' = context
                      /\ fetch' = [fetch EXCEPT ![f].pc = "bootstrap",
                                                ![f].name = localStorage]
        ELSE LET r == CHOOSE r \in rows : TRUE
             IN /\ context' = [context EXCEPT !.userRole = r.role]
                /\ fetch' = [fetch EXCEPT ![f].pc = "company",
                                          ![f].company_id = r.company_id]
     /\ UNCHANGED <<tables, clock, calls, firstId, domain, audit_log, credentials,
                    user, localStorage, create, form>>

\* What the client holds once the RPC on session k has answered, or "rpc"
\* while it has not.
Awaiting(op, k) ==
  IF calls'[k].pc = "done"
    THEN [op EXCEPT !.pc = "answered", !.call = k, !.error = calls'[k].error]
    ELSE [op EXCEPT !.pc = "rpc", !.call = k]

\* tryBootstrapFromPending: supabase.rpc('bootstrap_user_company', pending)
\* reaches the database.
tryBootstrapFromPending(f, k) ==
  /\ fetch[f].pc = "bootstrap"
  /\ BootstrapBegin(k, fetch[f].user, fetch[f].name)
  /\ fetch' = [fetch EXCEPT ![f] = Awaiting(fetch[f], k)]
  /\ UNCHANGED <<user, context, localStorage, create, form>>

\* The RPC does not reach the database (the network, an expired session):
\* rpcError is set.
tryBootstrapFromPendingFails(f) ==
  /\ fetch[f].pc = "bootstrap"
  /\ fetch' = [fetch EXCEPT ![f].pc = "answered", ![f].error = TRUE]
  /\ UNCHANGED <<tables, clock, calls, firstId, domain, audit_log, credentials,
                 user, context, localStorage, create, form>>

\* The answer of the RPC on session k reaches the call that awaits it.
Deliver(k) ==
  /\ fetch' = [f \in Fetches |->
                 IF fetch[f].pc = "rpc" /\ fetch[f].call = k
                   THEN [fetch[f] EXCEPT !.pc = "answered", !.error = calls'[k].error]
                   ELSE fetch[f]]
  /\ create' = IF create.pc = "rpc" /\ create.call = k
                 THEN [create EXCEPT !.pc = "answered",
                                     !.error = calls'[k].error,
                                     !.companyId = calls'[k].data]
                 ELSE create
  /\ UNCHANGED <<user, context, localStorage, form>>

\* The statements of the RPC a browser call awaits.
RpcInsert(k) == BootstrapInsert(k) /\ UNCHANGED client
RpcReturn(k) == BootstrapLink(k) /\ Deliver(k)

\* (mutant) no inner try / catch around tryBootstrapFromPending: the error
\* of the RPC reaches the outer catch, which sets error
tryBootstrapFromPendingThrows(f) ==
  /\ fetch[f].pc = "answered"
  /\ IF fetch[f].error
       THEN /\ context' = Failed(context)
            /\ fetch' = [fetch EXCEPT ![f] = IdleFetch]
            /\ localStorage' = localStorage
       ELSE /\ context' = context
            /\ fetch' = [fetch EXCEPT ![f].pc = "role2"]
            /\ localStorage' = ""
  /\ UNCHANGED <<tables, clock, calls, firstId, domain, audit_log, credentials,
                 user, create, form>>

\* (mutant) the pending record is removed as soon as the RPC has answered,
\* before the test of rpcError
tryBootstrapFromPendingForgets(f) ==
  /\ fetch[f].pc = "answered"
  /\ IF fetch[f].error
       THEN /\ context' = NoCompany(context)
            /\ fetch' = [fetch EXCEPT ![f] = IdleFetch]
       ELSE /\ context' = context
            /\ fetch' = [fetch EXCEPT ![f].pc = "role2"]
  /\ localStorage' = ""
  /\ UNCHANGED <<tables, clock, calls, firstId, domain, audit_log, credentials,
                 user, create, form>>

\* if (rpcError) throw rpcError: the inner catch logs it and the call ends
\* in the "no company" state, the pending record untouched.
\* Otherwise localStorage.removeItem and the role query is sent again.
tryBootstrapFromPendingReturns(f) ==
  /\ fetch[f].pc = "answered"
  /\ IF fetch[f].error
       THEN /\ context' = NoCompany(context)
            /\ fetch' = [fetch EXCEPT ![f] = IdleFetch]
            /\ localStorage' = localStorage
       ELSE /\ context' = context
            /\ fetch' = [fetch EXCEPT ![f].pc = "role2"]
            /\ localStorage' = ""
  /\ UNCHANGED <<tables, clock, calls, firstId, domain, audit_log, credentials,
                 user, create, form>>

\* The second role query answers, inside the inner try: an error or no row
\* ends in the "no company" state.
FetchRoleAgain(f) ==
  LET u == fetch[f].user
      rows == RoleRowsSeen(u)
  IN /\ fetch[f].pc = "role2"
     /\ IF MaybeSingleFails(rows) \/ rows = {}
          THEN /\ context' = NoCompany(context)
               /\ fetch' = [fetch EXCEPT ![f] = IdleFetch]
          ELSE LET r == CHOOSE r \in rows : TRUE
               IN /\ context' = [context EXCEPT !.userRole = r.role]
                  /\ fetch' = [fetch EXCEPT ![f].pc = "company",
                                            ![f].company_id = r.company_id]
     /\ UNCHANGED <<tables, clock, calls, firstId, domain, audit_log, credentials,
                    user, localStorage, create, form>>

\* from('companies').select('*').eq('id', id) as principal u sees it
CompanyRowsSeen(u, id) ==
  {co \in companies :
     co.id = id /\ Allowed(u, "companies", "SELECT", [user_id |-> NULL, company_id |-> co.id])}

\* from('subscriptions').select('*').eq('company_id', id)
SubscriptionRowsSeen(u, id) ==
  {su \in subscriptions :
     su.company_id = id
       /\ Allowed(u, "subscriptions", "SELECT", [user_id |-> NULL, company_id |-> id])}

\* The company query answers (.single()): setCompany and the subscription
\* query is sent.
FetchCompany(f) ==
  LET rows == CompanyRowsSeen(fetch[f].user, fetch[f].company_id)
  IN /\ fetch[f].pc = "company"
     /\ IF SingleFails(rows)
          THEN /\ context' = Failed(context)
               /\ fetch' = [fetch EXCEPT ![f] = IdleFetch]
          ELSE /\ context' = [context EXCEPT !.company = fetch[f].company_id]
               /\ fetch' = [fetch EXCEPT ![f].pc = "subscription"]
     /\ UNCHANGED <<tables, clock, calls, firstId, domain, audit_log, credentials,
                    user, localStorage, create, form>>

\* The subscription query answers (.maybeSingle()): setSubscription, then
\* finally setLoading(false).
FetchSubscription(f) ==
  LET rows == SubscriptionRowsSeen(fetch[f].user, fetch[f].company_id)
  IN /\ fetch[f].pc = "subscription"
     /\ IF MaybeSingleFails(rows)
          THEN context' = Failed(context)
          ELSE context' =
                 [context EXCEPT
                    !.subscription = IF rows = {} THEN ""
                                     ELSE (CHOOSE su \in rows : TRUE).status,
                    !.loading = FALSE]
     /\ fetch' = [fetch EXCEPT ![f] = IdleFetch]
     /\ UNCHANGED <<tables, clock, calls, firstId, domain, audit_log, credentials,
                    user, localStorage, create, form>>

\* ------------------------------------------- the sign-up page (Auth)
\* createCompany has returned to handleSubscription, and that has returned:
\* what is left is the principal, the id the RPC gave and the error.
Resolved(err) ==
  [IdleCreate EXCEPT !.pc = "done", !.user = create.user,
                     !.principal = create.principal,
                     !.companyId = create.companyId, !.error = err]

\* handleSubscription up to its first await: the form is valid, the pending
\* record is written, signUp / signIn are sent for principal u.  The
\* createCompany the handler will call is the one of this render, whose
\* user is the principal signed in now (NULL on a signed-out page).
handleSubscription(u, n) ==
  /\ create.pc \in {"idle", "done"}
  /\ user \in {NULL, u}
  /\ localStorage' = n
  /\ create' = [IdleCreate EXCEPT !.pc = "signIn", !.user = user,
                                  !.principal = u, !.name = n]
  /\ UNCHANGED <<tables, clock, calls, firstId, domain, audit_log, credentials,
                 user, context, fetch, form>>

\* signIn succeeds: the session is u's, the effect on [user] calls
\* fetchCompanyData, and the handler goes on to createCompany.
handleSubscriptionSignedIn ==
  /\ create.pc = "signIn"
  /\ \E f \in Fetches : FreeFetch(f) /\ fetchCompanyData(f, create.principal)
  /\ user' = create.principal
  /\ create' = [create EXCEPT !.pc = "createCompany"]
  /\ UNCHANGED <<tables, clock, calls, firstId, domain, audit_log, credentials,
                 localStorage, form>>

\* signUp or signIn fails (loginError): a toast, and the handler returns.
handleSubscriptionSignInFails ==
  /\ create.pc = "signIn"
  /\ create' = Resolved(TRUE)
  /\ UNCHANGED <<tables, clock, calls, firstId, domain, audit_log, credentials,
                 user, context, localStorage, fetch, form>>

\* createCompany: if (!user) return { error }, and handleSubscription shows
\* the toast and returns.
createCompanyUnauthenticated ==
  /\ create.pc = "createCompany"
  /\ create.user = NULL
  /\ create' = Resolved(TRUE)
  /\ UNCHANGED <<tables, clock, calls, firstId, domain, audit_log, credentials,
                 user, context, localStorage, fetch, form>>

\* createCompany: supabase.rpc('bootstrap_user_company', data) reaches the
\* database.
createCompany(k) ==
  /\ create.pc = "createCompany"
  /\ create.user # NULL
  /\ BootstrapBegin(k, create.user, create.name)
  /\ create' = [Awaiting(create, k) EXCEPT !.companyId = calls'[k].data]
  /\ UNCHANGED <<user, context, localStorage, fetch, form>>

\* The RPC of createCompany does not reach the database.
createCompanyRpcFails ==
  /\ create.pc = "createCompany"
  /\ create.user # NULL
  /\ create' = [create EXCEPT !.pc = "answered", !.error = TRUE]
  /\ UNCHANGED <<tables, clock, calls, firstId, domain, audit_log, credentials,
                 user, context, localStorage, fetch, form>>

\* if (rpcError) throw rpcError: createCompany returns the error.  Otherwise
\* await fetchCompanyData(), the one of the render createCompany is from.
createCompanyAnswered ==
  /\ create.pc = "answered"
  /\ IF create.error
       THEN /\ create' = Resolved(TRUE)
            /\ UNCHANGED <<context, fetch>>
       ELSE \E f \in Fetches :
              /\ FreeFetch(f)
              /\ fetchCompanyData(f, create.user)
              /\ create' = [create EXCEPT !.pc = "refresh", !.fetch = f]
  /\ UNCHANGED <<tables, clock, calls, firstId, domain, audit_log, credentials,
                 user, localStorage, form>>

\* fetchCompanyData has returned and the query for the company of the id
\* the RPC gave answers (.single()).  An error is returned to
\* handleSubscription, which shows a toast; with error null it removes the
\* pending record.
createCompanyReturns ==
  LET rows == CompanyRowsSeen(create.user, create.companyId)
  IN /\ create.pc = "refresh"
     /\ fetch[create.fetch].pc = "idle"
     /\ create' = Resolved(SingleFails(rows))
     /\ localStorage' = IF SingleFails(rows) THEN localStorage ELSE ""
     /\ UNCHANGED <<tables, clock, calls, firstId, domain, audit_log, credentials,
                    user, context, fetch, form>>

\* --------------------------------- Settings: the API connection dialog
\* canEdit and company of useCompany, for the principal of the page.
canEdit(p) == \E ctx \in CompanyContext(p) : ctx.role \in {"admin", "financeiro"}

\* apiConnections: from('api_connections').select('*').eq('company_id',
\* company.id), the rows as the table stores them.
apiConnections(p) ==
  {row \in api_connections :
     /\ ApiConnectionsPolicy(p, "SELECT", row)
     /\ \E ctx \in CompanyContext(p) : row.company_id = ctx.company_id}

\* The "new connection" button: the dialog opens on the reset form.
openNewApiDialog(p) ==
  /\ ~form.open
  /\ CompanyContext(p) # {}
  /\ form' = [ClosedForm EXCEPT !.open = TRUE, !.user = p]
  /\ UNCHANGED <<tables, clock, calls, firstId, domain, audit_log, credentials,
                 user, context, localStorage, fetch, create>>

\* openEditApiDialog(connection): setFormApiKey(connection.api_key || '')
openEditApiDialog(p, connection) ==
  /\ ~form.open
  /\ connection \in apiConnections(p)
  /\ form' = [open |-> TRUE, user |-> p, editing |-> connection,
              api_key |-> IF connection.api_key.kind = "null" THEN Text(<<>>)
                          ELSE connection.api_key]
  /\ UNCHANGED <<tables, clock, calls, firstId, domain, audit_log, credentials,
                 user, context, localStorage, fetch, create>>

\* The principal types an API key into the dialog.
setFormApiKey(key) ==
  /\ form.open
  /\ form.api_key # key
  /\ form' = [form EXCEPT !.api_key = key]
  /\ UNCHANGED <<tables, clock, calls, firstId, domain, audit_log, credentials,
                 user, context, localStorage, fetch, create>>

\* handleSaveApiConnection: an UPDATE of the connection being edited, or an
\* INSERT, with user_id, company_id, the form's api_key and is_active true.
\* On an error a toast is shown and the dialog stays as it is; otherwise the
\* dialog closes and the form is reset.
handleSaveApiConnection ==
  LET p == form.user
  IN /\ form.open
     /\ canEdit(p)
     /\ \E ctx \in CompanyContext(p) :
          LET new == [user_id |-> p, company_id |-> ctx.company_id,
                      api_key |-> form.api_key, is_active |-> TRUE]
              old == form.editing
              editing == old # NoConnection
              stored == encrypt_api_credentials_trigger(
                          IF editing THEN "UPDATE" ELSE "INSERT", old, new)
              ok == /\ stored.kind # "error"
                    /\ ApiConnectionsPolicy(p, IF editing THEN "UPDATE" ELSE "INSERT", new)
                    /\ editing => ApiConnectionsPolicy(p, "UPDATE", old)
          IN /\ editing => old \in api_connections
             /\ ~editing => Cardinality(api_connections) < MaxRows
             /\ IF ok
                  THEN /\ api_connections' =
                            (api_connections \ {old}) \cup {[new EXCEPT !.api_key = stored]}
                       /\ form' = ClosedForm
                  ELSE UNCHANGED <<api_connections, form>>
     /\ UNCHANGED <<tables, clock, calls, firstId, domain, audit_log, cred,
                    user, context, localStorage, fetch, create>>

\* toggleConnectionStatus(id, currentStatus): UPDATE api_connections SET
\* is_active = NOT currentStatus WHERE id = id
toggleConnectionStatus(p, connection) ==
  LET new == [connection EXCEPT !.is_active = ~connection.is_active]
      stored == encrypt_api_credentials_trigger("UPDATE", connection, new)
  IN /\ canEdit(p)
     /\ connection \in apiConnections(p)
     /\ ApiConnectionsPolicy(p, "UPDATE", connection)
     /\ ApiConnectionsPolicy(p, "UPDATE", new)
     /\ api_connections' =
          IF stored.kind = "error" THEN api_connections
          ELSE (api_connections \ {connection}) \cup {[new EXCEPT !.api_key = stored]}
     /\ UNCHANGED <<tables, clock, calls, firstId, domain, audit_log, cred, client>>

\* ------------------------------------------------------ ProtectedRoute
\* What ProtectedRoute renders (authLoading is over).
ProtectedRoute ==
  IF user = NULL THEN "/auth"
  ELSE IF context.loading THEN "loading"
  ELSE IF context.company = NULL THEN "/auth"
  ELSE IF context.subscription # "" /\ context.subscription # "ativo"
    THEN "SubscriptionBlocked"
  ELSE "Outlet"

\* ------------------------------------------------------------------ spec
\* An empty database.  on_auth_user_created gave each principal in S a
\* profile with no company.
InitWith(S) ==
  /\ companies = {}
  /\ user_roles = {}
  /\ subscriptions = {}
  /\ profiles = {[user_id |-> u, company_id |-> NULL] : u \in S}
  /\ clock = 0
  /\ calls = [k \in Calls |-> IdleCall]
  /\ firstId = [u \in Users |-> NULL]
  /\ transactions = {}
  /\ categories = {}
  /\ audit_log = {}
  /\ api_connections = {}
  /\ cred = NoCred
  /\ InitClient

\* Every principal signed up through the trigger.
Init == InitWith(Users)

\* Some principals have no profile row (deleted under "Users can delete
\* their own profile", or created before the trigger).
InitSomeProfiles == \E S \in SUBSET Users : InitWith(S)

\* The bootstrap RPCs of all principals, interleaved statement by statement.
NextBootstrap ==
  \/ \E k \in Calls, u \in Users, n \in Names :
       BootstrapBegin(k, u, n) /\ UNCHANGED client
  \/ \E k \in Calls : BootstrapInsert(k) /\ UNCHANGED client
  \/ \E k \in Calls : BootstrapLink(k) /\ UNCHANGED client

SpecBootstrap == InitSomeProfiles /\ [][NextBootstrap]_vars

\* The tenant directory: bootstrap and every write row-level security lets a
\* principal make on user_roles and subscriptions.
NextDirectory ==
  \/ \E u \in Users : BootstrapAlone(u, "Acme")
  \/ \E p, u \in Users, c \in CompanyIds, role \in app_role : RoleInsert(p, u, c, role)
  \/ \E p, u \in Users, c \in CompanyIds, role \in app_role : RoleUpdate(p, u, c, role)
  \/ \E p, u \in Users, c \in CompanyIds : RoleDelete(p, u, c)
  \/ \E p, u \in Users, role \in app_role : handleUpdateUserRole(p, u, role)
  \/ \E p, u \in Users : handleRemoveUser(p, u)
  \/ \E p \in Users, c \in CompanyIds, st \in subscription_status :
       SubscriptionInsert(p, c, st)
  \/ \E p \in Users, c \in CompanyIds, st \in subscription_status :
       SubscriptionUpdate(p, c, st)
  \/ \E p \in Users, c \in CompanyIds : SubscriptionDelete(p, c)

SpecDirectory == Init /\ [][NextDirectory]_vars

\* The companies and their subscriptions: bootstrap, the writes row-level
\* security lets a principal make on companies and subscriptions, and the
\* role grants that give a company its members.
NextCompanies ==
  \/ \E u \in Users : BootstrapAlone(u, "Acme")
  \/ \E p \in Users : CompanyInsert(p, "Acme")
  \/ \E p \in Users, c \in CompanyIds, n \in Names : CompanyUpdate(p, c, n)
  \/ \E p \in Users, c \in CompanyIds : CompanyDelete(p, c)
  \/ \E p, u \in Users, c \in CompanyIds : RoleInsert(p, u, c, "financeiro")
  \/ \E p \in Users, c \in CompanyIds, st \in subscription_status :
       SubscriptionInsert(p, c, st)
  \/ \E p \in Users, c \in CompanyIds, st \in subscription_status :
       SubscriptionUpdate(p, c, st)
  \/ \E p \in Users, c \in CompanyIds : SubscriptionDelete(p, c)

SpecCompanies == Init /\ [][NextCompanies]_vars

\* The audit log next to the writes it is to record.
NextAudit ==
  \/ \E u \in Users : BootstrapAlone(u, "Acme")
  \/ \E p, u \in Users, c \in CompanyIds, role \in app_role : RoleInsert(p, u, c, role)
  \/ \E p \in Users, c \in CompanyIds, st \in subscription_status :
       SubscriptionUpdate(p, c, st)
  \/ \E p \in Users, c \in CompanyIds : CompanyDelete(p, c)
  \/ \E p \in Users, t \in AuditTableNames, a \in AuditActions : log_audit_event(p, t, a)
  \/ \E p \in Users, t \in AuditTableNames, a \in AuditActions : logAction(p, t, a)

SpecAudit == Init /\ [][NextAudit]_vars

\* The calls of log_audit_event under the role assignments that bootstrap
\* and an admin's grants produce.
NextLedger ==
  \/ \E u \in Users : BootstrapAlone(u, "Acme")
  \/ \E p, u \in Users, c \in CompanyIds, role \in app_role : RoleInsert(p, u, c, role)
  \/ \E p \in Users, a \in AuditActions : log_audit_event(p, "user_roles", a)

SpecLedger == Init /\ [][NextLedger]_vars

\* The values a client sends for api_key.
SampleKeys == {NullV, Text(<<>>), Text(<<"k">>), Text(<<"\\">>), Text(<<"\\", "\\">>)}

\* Either no call of the credential functions, or the inputs of one; and at
\* most one api_connections row written before the trigger existed, its
\* api_key as the client sent it.
InitCredentials ==
  /\ companies = {}
  /\ user_roles = {}
  /\ subscriptions = {}
  /\ profiles = {[user_id |-> u, company_id |-> NULL] : u \in Users}
  /\ clock = 0
  /\ calls = [k \in Calls |-> IdleCall]
  /\ firstId = [u \in Users |-> NULL]
  /\ transactions = {}
  /\ categories = {}
  /\ audit_log = {}
  /\ \/ api_connections = {}
     \/ \E u \in Users, key \in SampleKeys :
          api_connections = {[user_id |-> u, company_id |-> NULL, api_key |-> key,
                              is_active |-> TRUE]}
  /\ \E t \in {NullV, Text(<<>>)} \cup {Text(x) : x \in Texts},
        o \in Users, r \in Users, g \in Given :
       cred = [NoCred EXCEPT !.pc = "input", !.plaintext = t, !.owner = o,
                             !.reader = r, !.given = g]
  /\ InitClient

\* The credential functions and the writes on api_connections.
NextCredentials ==
  \/ EncryptStep
  \/ DecryptStep
  \/ \E p, u \in Users, key \in SampleKeys : ApiConnectionInsert(p, u, NULL, key)
  \/ \E p \in Users, row \in api_connections, key \in SampleKeys :
       ApiConnectionUpdate(p, row, key)
  \/ \E p \in Users, row \in api_connections : ApiConnectionDelete(p, row)

SpecCredentials == InitCredentials /\ [][NextCredentials]_vars

\* The api_connections rows of the members of a company.
NextConnections ==
  \/ \E u \in Users : BootstrapAlone(u, "Acme")
  \/ \E p, u \in Users, c \in CompanyIds : RoleInsert(p, u, c, "financeiro")
  \/ \E p \in Users, c \in CompanyIds : CompanyDelete(p, c)
  \/ \E p, u \in Users, c \in CompanyIds \cup {NULL} :
       ApiConnectionInsert(p, u, c, Text(<<"k">>))
  \/ \E p \in Users, row \in api_connections :
       ApiConnectionUpdate(p, row, Text(<<"x">>))
  \/ \E p \in Users, row \in api_connections : ApiConnectionDelete(p, row)

SpecConnections == Init /\ [][NextConnections]_vars

\* The role assignments alone: bootstrap and the writes on user_roles.
NextRoles ==
  \/ \E u \in Users : BootstrapAlone(u, "Acme")
  \/ \E p, u \in Users, c \in CompanyIds, role \in app_role : RoleInsert(p, u, c, role)
  \/ \E p, u \in Users, c \in CompanyIds, role \in app_role : RoleUpdate(p, u, c, role)
  \/ \E p, u \in Users, c \in CompanyIds : RoleDelete(p, u, c)
  \/ \E p, u \in Users, role \in app_role : handleUpdateUserRole(p, u, role)
  \/ \E p, u \in Users : handleRemoveUser(p, u)

SpecRoles == Init /\ [][NextRoles]_vars

\* The domain tables under the directory states that bootstrap, role grants
\* and subscription status changes produce.
NextDomain ==
  \/ \E u \in Users : BootstrapAlone(u, "Acme")
  \/ \E p, u \in Users, c \in CompanyIds, role \in app_role : RoleInsert(p, u, c, role)
  \/ \E p \in Users, c \in CompanyIds, st \in subscription_status :
       SubscriptionUpdate(p, c, st)
  \/ \E p, u \in Users, c \in CompanyIds : TransactionInsert(p, u, c)
  \/ \E p \in Users, row \in transactions : TransactionDelete(p, row)
  \/ \E p, u \in Users, c \in CompanyIds : CategoryInsert(p, u, c)
  \/ \E p \in Users, row \in categories : CategoryDelete(p, row)

SpecDomain == Init /\ [][NextDomain]_vars

\* The browser of one principal: sign-in, the sign-up form, the
\* fetchCompanyData calls they start and the bootstrap RPCs these send.
NextSignUp ==
  \/ \E u \in Users : signIn(u)
  \/ \E u \in Users, n \in Names : handleSubscription(u, n)
  \/ handleSubscriptionSignedIn
  \/ handleSubscriptionSignInFails
  \/ createCompanyUnauthenticated
  \/ \E k \in Calls : createCompany(k)
  \/ createCompanyRpcFails
  \/ createCompanyAnswered
  \/ createCompanyReturns
  \/ \E f \in Fetches : FetchRole(f)
  \/ \E f \in Fetches, k \in Calls : tryBootstrapFromPending(f, k)
  \/ \E f \in Fetches : tryBootstrapFromPendingFails(f)
  \/ \E k \in Calls : RpcInsert(k)
  \/ \E k \in Calls : RpcReturn(k)
  \/ \E f \in Fetches : tryBootstrapFromPendingReturns(f)
  \/ \E f \in Fetches : FetchRoleAgain(f)
  \/ \E f \in Fetches : FetchCompany(f)
  \/ \E f \in Fetches : FetchSubscription(f)

SpecSignUp == InitSomeProfiles /\ [][NextSignUp]_vars

\* The route gate of a signed-in principal while the admins change the
\* subscription of the company.
NextRoute ==
  \/ \E u \in Users : BootstrapAlone(u, "Acme")
  \/ \E p \in Users, c \in CompanyIds, st \in subscription_status :
       SubscriptionUpdate(p, c, st)
  \/ \E p \in Users, c \in CompanyIds : SubscriptionDelete(p, c)
  \/ \E u \in Users : signIn(u)
  \/ signOut
  \/ \E f \in Fetches : FetchRole(f)
  \/ \E f \in Fetches : FetchCompany(f)
  \/ \E f \in Fetches : FetchSubscription(f)

SpecRoute == Init /\ [][NextRoute]_vars

\* The Settings page of the members of a company.
NextSettings ==
  \/ \E u \in Users : BootstrapAlone(u, "Acme")
  \/ \E p \in Users : openNewApiDialog(p)
  \/ \E p \in Users, row \in api_connections : openEditApiDialog(p, row)
  \/ \E key \in SampleKeys : setFormApiKey(key)
  \/ handleSaveApiConnection
  \/ \E p \in Users, row \in api_connections : toggleConnectionStatus(p, row)
  \/ \E p \in Users, row \in api_connections : ApiConnectionDelete(p, row)

SpecSettings == Init /\ [][NextSettings]_vars

\* Everything at once.
Next == NextBootstrap \/ NextDirectory \/ NextDomain \/ NextCompanies \/ NextAudit
          \/ NextCredentials \/ NextConnections \/ NextLedger
          \/ NextSignUp \/ NextRoute \/ NextSettings

Spec == InitSomeProfiles /\ [][Next]_vars

\* ---------------------------------------------------------------- claims

\* The calls of u that began before any bootstrap of u had answered: they
\* all ran against a principal with no role, concurrently with the first.
FirstCalls(u) == {k \in Calls : calls[k].pc # "idle" /\ calls[k].caller = u
                                /\ ~calls[k].late}

\* C1: N >= 2 concurrent bootstrap calls of one principal that starts with
\* no role end with exactly one company, one role assignment and one
\* subscription created for the principal, and all return the same id.
C1_ConcurrentBootstrapConverges ==
  \A u \in Users :
    (Cardinality(FirstCalls(u)) >= 2 /\ \A k \in FirstCalls(u) : calls[k].pc = "done")
    => /\ Cardinality(RolesOf(u)) = 1
       /\ Cardinality({co \in companies : co.id \in CompanyIdsOf(u)}) = 1
       /\ Cardinality({s \in subscriptions : s.company_id \in CompanyIdsOf(u)}) = 1
       /\ \A j, k \in FirstCalls(u) :
            ~calls[k].error /\ calls[j].data = calls[k].data

\* C2: once a bootstrap call of a principal has committed, every later call
\* of that principal returns the same company id and writes nothing (it
\* takes the already-has-role branch and answers at once).
C2_LaterCallsReturnFirstId ==
  \A k \in Calls :
    calls[k].late => /\ calls[k].pc = "done"
                     /\ ~calls[k].error
                     /\ calls[k].data = firstId[calls[k].caller]

\* The step that ends call k: the profile statement and the commit or the
\* rollback.
EndsCall(k) == calls[k].pc = "link" /\ calls'[k].pc = "done"

NoPartialTenant ==
  /\ \A co \in companies :
       /\ \E r \in user_roles : r.company_id = co.id /\ r.role = "admin"
                                  /\ ProfileExists(r.user_id)
       /\ \E su \in subscriptions : su.company_id = co.id
  /\ \A r \in user_roles : \E co \in companies : co.id = r.company_id
  /\ \A su \in subscriptions : \E co \in companies : co.id = su.company_id
  /\ \A p \in profiles :
       p.company_id # NULL => \E co \in companies : co.id = p.company_id

\* C3: bootstrap is all-or-nothing.  A call that ends in an error leaves no
\* row behind, so (bootstrap being the only writer) no state holds a company
\* without its admin role and its subscription, nor a row of a company that
\* does not exist.
C3_BootstrapAllOrNothing ==
  /\ []NoPartialTenant
  /\ [][\A k \in Calls :
          (EndsCall(k) /\ calls'[k].error) => UNCHANGED tables]_vars

\* a call has failed on the profile INSERT after its three INSERTs were made
C3_Witness ==
  \E k \in Calls : /\ calls[k].pc = "done" /\ calls[k].error
                    /\ \E r \in RolesOf(calls[k].caller) : r.created_at # calls[k].ts

\* C4: a bootstrap call of a principal with no role assignment creates
\* exactly one company, one role assignment (caller, company, admin), one
\* subscription (company, ativo, valor 0), makes the caller's profile
\* reference the company, and returns the company's id.
C4_BootstrapCreatesTenant ==
  [][\A k \in Calls :
       EndsCall(k) =>
         LET u == calls[k].caller
             id == calls'[k].data
         IN /\ RolesOf(u) = {} => ~calls'[k].error
            /\ ~calls'[k].error =>
                 /\ \A co \in companies : co.id # id
                 /\ companies' = companies \cup {[id |-> id, name |-> calls[k].name]}
                 /\ \E r \in user_roles' :
                      /\ r.user_id = u /\ r.company_id = id /\ r.role = "admin"
                      /\ user_roles' = user_roles \cup {r}
                 /\ \E su \in subscriptions' :
                      /\ su.company_id = id /\ su.status = "ativo" /\ su.valor = 0
                      /\ subscriptions' = subscriptions \cup {su}
                 /\ [user_id |-> u, company_id |-> id] \in profiles'
                 /\ \A p \in profiles' :
                      p.user_id = u => p.company_id = id
                 /\ {p \in profiles' : p.user_id # u} = {p \in profiles : p.user_id # u}
    ]_vars

\* a call of a principal that had no role has committed and returned its id
C4_Witness ==
  \E k \in Calls :
    /\ calls[k].pc = "done" /\ ~calls[k].error /\ calls[k].data = calls[k].ts
    /\ \E co \in companies : co.id = calls[k].data /\ co.name = calls[k].name
    /\ CompanyIdsOf(calls[k].caller) = {calls[k].data}

\* C5: after any sequence of bootstrap calls and admin role writes every
\* principal has at most one role assignment (the store is to refuse a
\* second one).
C5_OneRolePerPrincipal ==
  \A u \in Users : Cardinality(RolesOf(u)) <= 1

\* The rows of a table as the policies see them, and the rows a principal
\* can offer to INSERT for company c.
RowsOf(tbl) ==
  CASE tbl = "companies" -> {[user_id |-> NULL, company_id |-> co.id] : co \in companies}
    [] tbl = "user_roles" -> {[user_id |-> r.user_id, company_id |-> r.company_id] : r \in user_roles}
    [] tbl = "subscriptions" -> {[user_id |-> NULL, company_id |-> su.company_id] : su \in subscriptions}
    [] tbl = "audit_log" -> audit_log
    [] tbl = "transactions" -> transactions
    [] tbl = "categories" -> categories
NewRows(c) == {[user_id |-> u, company_id |-> c] : u \in Users}
RowsFor(tbl, cmd, c) ==
  IF cmd = "INSERT" THEN NewRows(c)
  ELSE {row \in RowsOf(tbl) : row.company_id = c}

\* C6: tenant isolation.  A principal whose only role assignment is in
\* company A is allowed no read and no write on a row scoped to another
\* company B, in any of companies, user_roles, subscriptions, audit_log,
\* transactions, categories.
C6_TenantIsolation ==
  \A p \in Users : \A b \in CompanyIds :
    (Cardinality(RolesOf(p)) = 1 /\ CompanyExists(b) /\ b \notin CompanyIdsOf(p))
    => \A tbl \in Tables : \A cmd \in Commands : \A row \in RowsFor(tbl, cmd, b) :
         ~Allowed(p, tbl, cmd, row)

\* C7: subscription gating.  While the subscription of a company is
\* suspenso or cancelado every write on its rows is denied to every member,
\* and the members can still read the subscription.
C7_SuspendedDeniesWrites ==
  \A su \in subscriptions :
    su.status \in {"suspenso", "cancelado"} =>
      \A p \in Users :
        is_company_member(p, su.company_id) =>
          /\ Allowed(p, "subscriptions", "SELECT", su)
          /\ \A tbl \in Tables : \A cmd \in Writes :
               \A row \in RowsFor(tbl, cmd, su.company_id) :
                 ~Allowed(p, tbl, cmd, row)

\* C8: a principal whose role is leitura is shown profit, product_cost and
\* tax_amount of no transaction, neither by the table nor by
\* transactions_safe; admin and financeiro members are shown them for the
\* transactions of their company.
C8_ReadonlyNeverSeesSensitive ==
  \A p \in Users : \A row \in transactions :
    /\ (RolesOf(p) # {} /\ \A r \in RolesOf(p) : r.role = "leitura")
         => ~TableShowsSensitive(p, row) /\ ~ViewShowsSensitive(p, row)
    /\ (/\ \E r \in RolesOf(p) : r.company_id = row.company_id
                                  /\ r.role \in {"admin", "financeiro"}
        /\ Cardinality(RolesOf(p)) = 1
        /\ is_subscription_active(row.company_id))
         => TableShowsSensitive(p, row) /\ ViewShowsSensitive(p, row)

AdminsOf(c) == {r \in user_roles : r.company_id = c /\ r.role = "admin"}

\* C9: last-admin protection.  While a company has exactly one admin role
\* assignment, no step removes that assignment or changes its role (only
\* that admin could: nobody else may write the roles of the company).
C9_LastAdminProtected ==
  [][\A r \in user_roles : AdminsOf(r.company_id) = {r} => r \in user_roles']_vars

\* C10: every existing company has at least one admin role assignment.
C10_CompanyKeepsAnAdmin ==
  \A co \in companies : AdminsOf(co.id) # {}

HasSubscription(c) == \E su \in subscriptions : su.company_id = c

\* C11: only an admin of a company can insert, update or delete its role
\* assignments or its subscription: a financeiro or leitura member and a
\* non-member are denied each such write, also while the company has no
\* subscription row.
C11_OnlyAdminsWriteDirectory ==
  \A p \in Users : \A c \in CompanyIds :
    (CompanyExists(c) /\ ~is_company_admin(p, c)) =>
      /\ \A cmd \in Writes : \A row \in RowsFor("user_roles", cmd, c) :
           ~Allowed(p, "user_roles", cmd, row)
      /\ \A cmd \in {"UPDATE", "DELETE"} :
           \A row \in RowsFor("subscriptions", cmd, c) :
             ~Allowed(p, "subscriptions", cmd, row)
      /\ ~HasSubscription(c) =>
           \A row \in NewRows(c) : ~Allowed(p, "subscriptions", "INSERT", row)

\* A principal who is not admin of company c is allowed no INSERT and no
\* UPDATE on a user_roles row of c that carries their own id.
NoSelfGrant ==
  \A p \in Users : \A c \in CompanyIds :
    (CompanyExists(c) /\ ~is_company_admin(p, c)) =>
      \A cmd \in {"INSERT", "UPDATE"} : \A role \in app_role :
        ~Allowed(p, "user_roles", cmd,
                 [user_id |-> p, company_id |-> c, role |-> role])

\* The step that brings role row r into user_roles is the bootstrap of a
\* company that did not exist, with r its admin, or is made while the
\* company of r has an admin.
RoleComesFromBootstrapOrAdmin(r) ==
  \/ /\ r.role = "admin"
     /\ ~CompanyExists(r.company_id)
     /\ \E co \in companies' : co.id = r.company_id
  \/ \E p \in Users : is_company_admin(p, r.company_id)

\* C12: nobody obtains a role assignment by writing user_roles themselves.
\* A non-admin of a company can neither create nor raise their own role in
\* it, and every new or changed role row comes from bootstrap (admin of a
\* fresh company) or from a write in a company that has an admin.
C12_NoSelfGrantedRole ==
  /\ []NoSelfGrant
  /\ [][\A r \in user_roles' \ user_roles : RoleComesFromBootstrapOrAdmin(r)]_vars

\* A member granted a role below admin by the admin of the company, who is
\* denied writing their own row.
C12_Witness ==
  \E r \in user_roles :
    /\ r.role # "admin"
    /\ ~is_company_admin(r.user_id, r.company_id)
    /\ \E a \in user_roles : a.company_id = r.company_id /\ a.role = "admin"

\* The step inserts company c as bootstrap_user_company does: with the admin
\* role of a principal who had no role, and with its subscription.
CreatedByBootstrap(c) ==
  /\ \E r \in user_roles' : /\ r.company_id = c
                            /\ r.role = "admin"
                            /\ RolesOf(r.user_id) = {}
  /\ \E su \in subscriptions' : su.company_id = c

\* C13: company rows come from the bootstrap transaction only (so never
\* from a principal who already has a role, neither through a second
\* bootstrap nor through an INSERT on companies), and a company row goes
\* only while the company has an admin, who alone may delete it.
C13_CompaniesOnlyFromBootstrap ==
  [][/\ \A co \in companies' : ~CompanyExists(co.id) => CreatedByBootstrap(co.id)
     /\ \A co \in companies :
          (\A x \in companies' : x.id # co.id)
            => \E p \in Users : is_company_admin(p, co.id)]_vars

SubscriptionsOf(c) == {su \in subscriptions : su.company_id = c}

\* C14: every existing company has exactly one subscription row, never
\* none and never two.
C14_OneSubscriptionPerCompany ==
  \A co \in companies : Cardinality(SubscriptionsOf(co.id)) = 1

\* C15: audit immutability.  An audit row, once written, is in audit_log
\* with the same fields after every later step.
C15_AuditRowsStay ==
  [][\A a \in audit_log : a \in audit_log']_vars

\* The step changes the rows of the privileged table of that name.
TableChanges(tableName) ==
  CASE tableName = "user_roles" -> user_roles' # user_roles
    [] tableName = "subscriptions" -> subscriptions' # subscriptions
    [] tableName = "companies" -> companies' # companies

\* C16: a privileged write and its audit row go together.  A step that
\* changes user_roles, subscriptions or companies writes an audit row for
\* that table, and a step that writes an audit row changes the table the
\* row names.
C16_MutationAndAuditTogether ==
  [][/\ \A t \in {"user_roles", "subscriptions", "companies"} :
          TableChanges(t) => \E a \in audit_log' \ audit_log : a.table_name = t
     /\ \A a \in audit_log' \ audit_log : TableChanges(a.table_name)]_vars

\* C17: an audit row is shown only to an admin of the company of the row
\* while the subscription of that company is active.
C17_AuditReadAdminOnly ==
  \A p \in Users : \A a \in audit_log :
    Allowed(p, "audit_log", "SELECT", a)
      => is_company_admin(p, a.company_id) /\ is_subscription_active(a.company_id)

\* C18: credential round trip.  A non-empty secret encrypted for principal
\* p decrypts to itself with the id of p and to NULL with the id of any
\* other principal.
C18_CredentialRoundTrip ==
  (/\ cred.given = "ciphertext"
   /\ ~IsNullOrEmpty(cred.plaintext)
   /\ cred.pc \in {"raised", "decrypted"})
  => /\ cred.pc = "decrypted"
     /\ cred.reader = cred.owner => cred.out = cred.plaintext
     /\ cred.reader # cred.owner => cred.out = NullV

\* C19: decrypt_api_credential never raises.  Whatever it is given (NULL,
\* the empty text, a text that is no ciphertext, a damaged ciphertext, a
\* ciphertext of another key) it returns a text or NULL, and no row makes
\* the read of api_connections_decrypted fail.
C19_DecryptNeverRaises ==
  /\ cred.pc = "raised" => cred.ciphertext.kind = "error"
  /\ cred.pc = "decrypted" => cred.out.kind \in {"null", "text"}
  /\ \A u \in Users :
       /\ \A row \in api_connections :
            decrypt_api_credential(row.api_key, u).kind \in {"null", "text"}
       /\ \A row \in api_connections_decrypted(u) :
            row.api_key.kind \in {"null", "text"}

\* A decryption that failed inside and returned NULL, and a row of the
\* view whose stored api_key does not decrypt.
C19_Witness ==
  /\ cred.pc = "decrypted"
  /\ ~IsNullOrEmpty(DecryptInput)
  /\ DecryptBody(DecryptInput, cred.reader).kind = "error"
  /\ cred.out = NullV
  /\ \E row \in api_connections :
       /\ ~IsNullOrEmpty(row.api_key)
       /\ DecryptBody(row.api_key, row.user_id).kind = "error"
       /\ [row EXCEPT !.api_key = NullV] \in api_connections_decrypted(row.user_id)

\* No command on api_connections and no read of the view gives principal q
\* a row of another principal, whatever the companies of the two.
OwnRowsOnly ==
  \A q \in Users :
    /\ \A row \in api_connections :
         row.user_id # q =>
           /\ \A cmd \in Commands : ~ApiConnectionsPolicy(q, cmd, row)
           /\ \A shown \in api_connections_decrypted(q) : shown.user_id # row.user_id
    /\ \A u \in Users \ {q} : \A c \in CompanyIds \cup {NULL} :
         ~ApiConnectionsPolicy(q, "INSERT",
            [user_id |-> u, company_id |-> c, api_key |-> Text(<<"k">>),
             is_active |-> TRUE])

\* The step is a write of the owner of the row on the row.
WrittenByOwner(row) ==
  \/ ApiConnectionDelete(row.user_id, row)
  \/ \E key \in SampleKeys \cup {Text(<<"x">>)} : ApiConnectionUpdate(row.user_id, row, key)

\* The step deletes the company of the row.
CompanyOfRowDeleted(row) ==
  /\ CompanyExists(row.company_id)
  /\ \A co \in companies' : co.id # row.company_id

EncryptedFor(row) == row.api_key.kind = "aes" /\ row.api_key.key = row.user_id

\* C21: plaintext never persists.  Every stored api_key that is neither
\* NULL nor empty is a ciphertext of encrypt_api_credential under the
\* user_id of its row.
C21_PlaintextNeverPersists ==
  \A row \in api_connections : IsNullOrEmpty(row.api_key) \/ EncryptedFor(row)

\* C23: home-company resolution is single-valued.  For every principal,
\* get_user_company_id can return one value only, the company of the
\* principal's first role assignment (what the already-has-role branch of
\* bootstrap_user_company returns), and the role query of fetchCompanyData
\* loads a row of that same company.
C23_HomeCompanySingleValued ==
  \A u \in Users :
    /\ get_user_company_id(u) = {FirstCompanyOf(u)}
    /\ ~MaybeSingleFails(RoleRowsSeen(u))
    /\ \A r \in RoleRowsSeen(u) : r.company_id = FirstCompanyOf(u)

\* The company has a subscription and none of them is 'ativo'.
Lapsed(c) == HasSubscription(c) /\ ~is_subscription_active(c)

\* C24: while the subscription of a company is suspended or cancelled, no
\* step changes the company's row, its role assignments or its subscription:
\* no member, admin included, can make a management write on it.
C24_LapsedCompanyFrozen ==
  [][\A c \in CompanyIds :
       Lapsed(c) =>
         /\ {co \in companies' : co.id = c} = {co \in companies : co.id = c}
         /\ {r \in user_roles' : r.company_id = c} = {r \in user_roles : r.company_id = c}
         /\ {su \in subscriptions' : su.company_id = c} = SubscriptionsOf(c)]_vars

\* The principal holds one of the roles in company c itself.
HoldsIn(p, c, roles) == \E r \in RoleRows(p, c) : r.role \in roles

\* C25: a principal is allowed to insert or update a transaction of company
\* c only with the admin or financeiro role in c itself, and to delete it
\* only with the admin role in c itself; a role held in another company
\* does not count.
C25_TransactionWritesNeedRoleInCompany ==
  \A p \in Users : \A c \in {co.id : co \in companies} :
    /\ \A cmd \in {"INSERT", "UPDATE"} : \A row \in RowsFor("transactions", cmd, c) :
         Allowed(p, "transactions", cmd, row) => HoldsIn(p, c, {"admin", "financeiro"})
    /\ \A row \in RowsFor("transactions", "DELETE", c) :
         Allowed(p, "transactions", "DELETE", row) => HoldsIn(p, c, {"admin"})

FetchReturns(f) == fetch[f].pc # "idle" /\ fetch'[f].pc = "idle"

\* C22: having no role assignment is a normal state.  For a principal with
\* no role assignment get_user_company_id returns NULL, and a
\* fetchCompanyData of that principal returns with company, userRole and
\* subscription null, error null and loading false, also after the RPC of a
\* pending bootstrap has failed.
C22_NoRoleIsNotAnError ==
  [][\A f \in Fetches :
       (FetchReturns(f) /\ RolesOf(fetch[f].user) = {}) =>
         /\ get_user_company_id(fetch[f].user) = {NULL}
         /\ context' = NoCompanyState]_vars

\* A principal signed in from a signed-out sign-up page, so with the
\* pending record written: every fetchCompanyData has returned, the
\* principal has no role and the record is still there (the RPC failed).
C22_Witness ==
  /\ user # NULL
  /\ create.pc = "done" /\ create.user = NULL
  /\ localStorage # ""
  /\ RolesOf(user) = {}
  /\ \A f \in Fetches : fetch[f].pc = "idle"
  /\ context = NoCompanyState

\* No fetchCompanyData is in progress: the context has settled.
Settled == \A f \in Fetches : fetch[f].pc = "idle"

\* C29: once createCompany has resolved with error null and every
\* fetchCompanyData has returned, whatever their interleaving, the context
\* holds the company whose id the bootstrap RPC returned, and error null.
C29_CreateCompanySettles ==
  (create.pc = "done" /\ ~create.error /\ user = create.user /\ Settled)
    => (context.company = create.companyId /\ ~context.error)

\* The pending record is removed in this step.
RecordRemoved == localStorage # "" /\ localStorage' = ""

\* The RPC that fetchCompanyData call f sent from the pending record has
\* answered, and the call goes on in this step.
PendingRpcResult(f) == fetch[f].pc = "answered" /\ fetch'[f].pc # "answered"

\* createCompany returns to handleSubscription in this step.
CreateResolves == create.pc # "done" /\ create'.pc = "done"

C28_RouteGateAgreesWithServer ==
  [][\A f \in Fetches :
       (fetch[f].pc = "subscription" /\ FetchReturns(f) /\ ProtectedRoute' = "Outlet")
         => is_subscription_active(context'.company)]_vars

\* handleSaveApiConnection succeeds in this step (the dialog closes).
SaveSucceeds == form.open /\ ~form'.open

\* The stored value is one application of encrypt_api_credential to the
\* value sent, and decrypts to it under the user of the row.
EncryptedOnce(sent, row) ==
  /\ row.api_key = encrypt_api_credential(sent, row.user_id)
  /\ decrypt_api_credential(row.api_key, row.user_id) = sent

\* C27: the trigger encrypts each written secret exactly once.  An update
\* that leaves api_key as it is stored (toggleConnectionStatus, or the edit
\* dialog sending the stored ciphertext back) leaves the stored value as it
\* is; an update or insert with another non-empty value stores one
\* application of encrypt_api_credential to it, which decrypts under the
\* user_id of the row to the value written.
C27_EncryptedExactlyOnce ==
  [][/\ \A old \in api_connections \ api_connections' :
          \A new \in api_connections' \ api_connections :
            (form' = form /\ new.is_active # old.is_active)
              => new.api_key = old.api_key
     /\ SaveSucceeds =>
          \E new \in api_connections' :
            /\ api_connections' = (api_connections \ {form.editing}) \cup {new}
            /\ IF form.editing # NoConnection /\ form.api_key = form.editing.api_key
                 THEN new.api_key = form.editing.api_key
                 ELSE IsNullOrEmpty(form.api_key) \/ EncryptedOnce(form.api_key, new)]_vars

====
